---- MODULE Spec2Model ----
(***************************************************************************)
(* Link Layer Control Procedure (LLCP) engine of the BLE controller's      *)
(* Upper Link Layer: subsys/bluetooth/controller/ll_sw/ull_llcp.c.         *)
(*                                                                         *)
(* Every C function is an operator from an engine state record to the      *)
(* engine state record after the call; the public entry points are the     *)
(* actions.  A failed LL_ASSERT sets s.aborted and stops the handler at    *)
(* that point.                                                             *)
(***************************************************************************)
EXTENDS Integers, Sequences, FiniteSets, TLC

\* Pool capacities (compile-time knobs, "#if !defined" placeholders).
PROC_CTX_BUF_NUM == 3
TX_CTRL_BUF_NUM == 1
NTF_BUF_NUM == 1

\* The connection objects: two connections served by the one set of pools.
Conns == {1, 2}
Blocks == 1..PROC_CTX_BUF_NUM

\* Control PDU opcodes: LL_VERSION_IND and one opcode the engine does not map.
PDU_DATA_LLCTRL_TYPE_VERSION_IND == "VERSION_IND"
PDU_DATA_LLCTRL_TYPE_OTHER == "OTHER"
Opcodes == {PDU_DATA_LLCTRL_TYPE_VERSION_IND, PDU_DATA_LLCTRL_TYPE_OTHER}

PROC_UNKNOWN == "PROC_UNKNOWN"
PROC_VERSION_EXCHANGE == "PROC_VERSION_EXCHANGE"

LP_COMMON_STATE_IDLE == "IDLE"
LP_COMMON_STATE_WAIT_TX == "WAIT_TX"
LP_COMMON_STATE_WAIT_RX == "WAIT_RX"
LP_COMMON_STATE_WAIT_NTF == "WAIT_NTF"
RP_COMMON_STATE_IDLE == "IDLE"
RP_COMMON_STATE_WAIT_RX == "WAIT_RX"
RP_COMMON_STATE_WAIT_TX == "WAIT_TX"
RP_COMMON_STATE_WAIT_NTF == "WAIT_NTF"

LP_COMMON_EVT_RUN == "LP_RUN"
LP_COMMON_EVT_RESPONSE == "LP_RESPONSE"
RP_COMMON_EVT_RUN == "RP_RUN"
RP_COMMON_EVT_REQUEST == "RP_REQUEST"

LR_STATE_IDLE == "LR_IDLE"
LR_STATE_ACTIVE == "LR_ACTIVE"
LR_STATE_DISCONNECT == "LR_DISCONNECT"
LR_EVT_RUN == "LR_RUN"
LR_EVT_COMPLETE == "LR_COMPLETE"
LR_EVT_CONNECT == "LR_CONNECT"
LR_EVT_DISCONNECT == "LR_DISCONNECT_EVT"

RR_STATE_IDLE == "RR_IDLE"
RR_STATE_ACTIVE == "RR_ACTIVE"
RR_STATE_DISCONNECT == "RR_DISCONNECT"
RR_EVT_RUN == "RR_RUN"
RR_EVT_COMPLETE == "RR_COMPLETE"
RR_EVT_CONNECT == "RR_CONNECT"
RR_EVT_DISCONNECT == "RR_DISCONNECT_EVT"

\* The null pointer; context blocks are numbered from 1.
NULL == 0

BT_HCI_ERR_SUCCESS == "SUCCESS"
BT_HCI_ERR_CMD_DISALLOWED == "CMD_DISALLOWED"

\* 16-bit host value <-> the two octets on the wire (little-endian).
sys_cpu_to_le16(v) == <<v % 256, (v \div 256) % 256>>
sys_le16_to_cpu(w) == w[1] + 256 * w[2]

\* Our identity (ll_settings) and the version records a peer may send.
OurVersion == [version_number |-> 9, company_id |-> 1521, sub_version_number |-> 65535]
PeerVersions == {[version_number |-> 10, company_id |-> 4660, sub_version_number |-> 22136]}

\* memset(&conn->vex, 0, ...)
VexZero ==
    [valid |-> 0, sent |-> 0,
     cached |-> [version_number |-> 0, company_id |-> 0, sub_version_number |-> 0]]

VARIABLES
    mem_ctx,    \* free list of the context pool (sequence of block indices)
    mem_tx,     \* free count of the transmit-node pool
    mem_ntf,    \* free count of the notification-node pool
    ctx,        \* memory of the context pool: block index -> struct proc_ctx
    conn,       \* connection objects: local/remote lane, vex, tx_q
    ll_rx_q,    \* host notification queue
    aborted,    \* an LL_ASSERT failed
    assert_failed, \* which one ("" while none has)
    vind_tx,    \* per connection: VERSION_IND PDUs enqueued since conn_init
    evt_log,    \* events dispatched to the FSMs by the last call, in order
    lastOp      \* last entry point called, its connection and its status

vars ==
    <<mem_ctx, mem_tx, mem_ntf, ctx, conn, ll_rx_q, aborted, assert_failed, vind_tx,
      evt_log, lastOp>>

\* The engine state as one record, threaded through the handlers.
Cur ==
    [mem_ctx |-> mem_ctx, mem_tx |-> mem_tx, mem_ntf |-> mem_ntf, ctx |-> ctx,
     conn |-> conn, ll_rx_q |-> ll_rx_q, aborted |-> aborted,
     assert_failed |-> assert_failed, vind_tx |-> vind_tx, evt_log |-> <<>>]

Becomes(s) ==
    /\ mem_ctx' = s.mem_ctx
    /\ mem_tx' = s.mem_tx
    /\ mem_ntf' = s.mem_ntf
    /\ ctx' = s.ctx
    /\ conn' = s.conn
    /\ ll_rx_q' = s.ll_rx_q
    /\ aborted' = s.aborted
    /\ assert_failed' = s.assert_failed
    /\ vind_tx' = s.vind_tx
    /\ evt_log' = s.evt_log

\* Sequencing of two statements: the second runs unless the first aborted.
Then(s, Op(_)) == IF s.aborted THEN s ELSE Op(s)

\* An FSM is entered: execute_fsm of lane or context b gets event evt.
Dispatch(s, fsm, b, evt) ==
    [s EXCEPT !.evt_log = Append(@, [fsm |-> fsm, ctx |-> b, evt |-> evt])]

\* A failed LL_ASSERT: the handler stops; assert_failed names the assertion.
LL_ASSERT_FAIL(s, what) == [s EXCEPT !.aborted = TRUE, !.assert_failed = what]

(***************************************************************************)
(* LLCP Resource Management                                                *)
(***************************************************************************)
tx_alloc_peek(s) == s.mem_tx > 0

ntf_alloc_peek(s) == s.mem_ntf > 0

\* mem_acquire on the context pool: the head of the free list, or NULL.
proc_ctx_acquire(s) ==
    IF s.mem_ctx = <<>> THEN [s |-> s, p |-> NULL]
    ELSE [s |-> [s EXCEPT !.mem_ctx = Tail(@)], p |-> Head(s.mem_ctx)]

\* ctx->opcode is not written: it keeps whatever the block held.
create_procedure(s, proc) ==
    LET a == proc_ctx_acquire(s) IN
    IF a.p = NULL THEN a
    ELSE [s |-> [a.s EXCEPT !.ctx[a.p].proc = proc,
                            !.ctx[a.p].state = LP_COMMON_STATE_IDLE,
                            !.ctx[a.p].collision = 0,
                            !.ctx[a.p].pause = 0],
          p |-> a.p]

(***************************************************************************)
(* Version Exchange Procedure Helper                                       *)
(***************************************************************************)
pdu_encode_version_ind ==
    [opcode |-> PDU_DATA_LLCTRL_TYPE_VERSION_IND,
     version_number |-> OurVersion.version_number,
     company_id |-> sys_cpu_to_le16(OurVersion.company_id),
     sub_version_number |-> sys_cpu_to_le16(OurVersion.sub_version_number)]

ntf_encode_version_ind(s, c) ==
    [opcode |-> PDU_DATA_LLCTRL_TYPE_VERSION_IND,
     version_number |-> s.conn[c].vex.cached.version_number,
     company_id |-> sys_cpu_to_le16(s.conn[c].vex.cached.company_id),
     sub_version_number |-> sys_cpu_to_le16(s.conn[c].vex.cached.sub_version_number)]

pdu_decode_version_ind(s, c, pdu) ==
    [s EXCEPT !.conn[c].vex.valid = 1,
              !.conn[c].vex.cached =
                  [version_number |-> pdu.version_number,
                   company_id |-> sys_le16_to_cpu(pdu.company_id),
                   sub_version_number |-> sys_le16_to_cpu(pdu.sub_version_number)]]

\* A peer's VERSION_IND as it arrives on the wire.
PeerPdu(v) ==
    [opcode |-> PDU_DATA_LLCTRL_TYPE_VERSION_IND,
     version_number |-> v.version_number,
     company_id |-> sys_cpu_to_le16(v.company_id),
     sub_version_number |-> sys_cpu_to_le16(v.sub_version_number)]

OtherPdu ==
    [opcode |-> PDU_DATA_LLCTRL_TYPE_OTHER, version_number |-> 0,
     company_id |-> <<0, 0>>, sub_version_number |-> <<0, 0>>]

RxPdus == {PeerPdu(v) : v \in PeerVersions} \cup {OtherPdu}

(***************************************************************************)
(* LLCP Local Procedure Common FSM                                         *)
(***************************************************************************)
RECURSIVE lr_complete(_, _)

\* Variant: the PDU is enqueued but ctx->opcode is not set.
lp_comm_tx_without_opcode(s, c, b) ==
    IF s.mem_tx = 0 THEN LL_ASSERT_FAIL(s, "LL_ASSERT(tx)")
    ELSE LET s1 == [s EXCEPT !.mem_tx = @ - 1] IN
         IF s1.ctx[b].proc = PROC_VERSION_EXCHANGE
         THEN [s1 EXCEPT !.conn[c].tx_q = Append(@, pdu_encode_version_ind),
                         !.vind_tx[c] = @ + 1]
         ELSE LL_ASSERT_FAIL(s1, "LL_ASSERT(0) in lp_comm_tx")

lp_comm_tx(s, c, b) ==
    IF s.mem_tx = 0 THEN LL_ASSERT_FAIL(s, "LL_ASSERT(tx)")
    ELSE LET s1 == [s EXCEPT !.mem_tx = @ - 1] IN
         IF s1.ctx[b].proc = PROC_VERSION_EXCHANGE
         THEN [s1 EXCEPT !.ctx[b].opcode = PDU_DATA_LLCTRL_TYPE_VERSION_IND,
                         !.conn[c].tx_q = Append(@, pdu_encode_version_ind),
                         !.vind_tx[c] = @ + 1]
         ELSE LL_ASSERT_FAIL(s1, "LL_ASSERT(0) in lp_comm_tx")

lp_comm_ntf(s, c, b) ==
    IF s.mem_ntf = 0 THEN LL_ASSERT_FAIL(s, "LL_ASSERT(ntf)")
    ELSE LET s1 == [s EXCEPT !.mem_ntf = @ - 1] IN
         IF s1.ctx[b].proc = PROC_VERSION_EXCHANGE
         THEN [s1 EXCEPT !.ll_rx_q = Append(@, ntf_encode_version_ind(s1, c))]
         ELSE LL_ASSERT_FAIL(s1, "LL_ASSERT(0) in lp_comm_ntf")

\* Variant: the notification is sent but the lane is not told Complete.
lp_comm_complete_without_lr_complete(s, c, b) ==
    IF s.ctx[b].proc = PROC_VERSION_EXCHANGE
    THEN IF ~ntf_alloc_peek(s)
         THEN [s EXCEPT !.ctx[b].state = LP_COMMON_STATE_WAIT_NTF]
         ELSE Then(lp_comm_ntf(s, c, b),
                   LAMBDA t : [t EXCEPT !.ctx[b].state = LP_COMMON_STATE_IDLE])
    ELSE LL_ASSERT_FAIL(s, "LL_ASSERT(0) in lp_comm_complete")

lp_comm_complete(s, c, b) ==
    IF s.ctx[b].proc = PROC_VERSION_EXCHANGE
    THEN IF ~ntf_alloc_peek(s)
         THEN [s EXCEPT !.ctx[b].state = LP_COMMON_STATE_WAIT_NTF]
         ELSE LET s1 == lp_comm_ntf(s, c, b)
                  s2 == Then(s1, LAMBDA t : lr_complete(t, c))
              IN  Then(s2, LAMBDA t : [t EXCEPT !.ctx[b].state = LP_COMMON_STATE_IDLE])
    ELSE LL_ASSERT_FAIL(s, "LL_ASSERT(0) in lp_comm_complete")

\* Variant: the request is transmitted whether or not vex.sent is set.
lp_comm_send_req_ignoring_sent(s, c, b) ==
    IF s.ctx[b].proc = PROC_VERSION_EXCHANGE
    THEN IF ~tx_alloc_peek(s) \/ s.ctx[b].pause # 0
         THEN [s EXCEPT !.ctx[b].state = LP_COMMON_STATE_WAIT_TX]
         ELSE LET s1 == lp_comm_tx(s, c, b) IN
              Then(s1, LAMBDA t :
                  [t EXCEPT !.conn[c].vex.sent = 1,
                            !.ctx[b].state = LP_COMMON_STATE_WAIT_RX])
    ELSE LL_ASSERT_FAIL(s, "LL_ASSERT(0) in lp_comm_send_req")

\* Variant: the request is transmitted without peeking the transmit pool.
lp_comm_send_req_without_peek(s, c, b) ==
    IF s.ctx[b].proc = PROC_VERSION_EXCHANGE
    THEN IF s.conn[c].vex.sent = 0
         THEN IF s.ctx[b].pause # 0
              THEN [s EXCEPT !.ctx[b].state = LP_COMMON_STATE_WAIT_TX]
              ELSE LET s1 == lp_comm_tx(s, c, b) IN
                   Then(s1, LAMBDA t :
                       [t EXCEPT !.conn[c].vex.sent = 1,
                                 !.ctx[b].state = LP_COMMON_STATE_WAIT_RX])
         ELSE lp_comm_complete(s, c, b)
    ELSE LL_ASSERT_FAIL(s, "LL_ASSERT(0) in lp_comm_send_req")

lp_comm_send_req(s, c, b) ==
    IF s.ctx[b].proc = PROC_VERSION_EXCHANGE
    THEN IF s.conn[c].vex.sent = 0
         THEN IF ~tx_alloc_peek(s) \/ s.ctx[b].pause # 0
              THEN [s EXCEPT !.ctx[b].state = LP_COMMON_STATE_WAIT_TX]
              ELSE LET s1 == lp_comm_tx(s, c, b) IN
                   Then(s1, LAMBDA t :
                       [t EXCEPT !.conn[c].vex.sent = 1,
                                 !.ctx[b].state = LP_COMMON_STATE_WAIT_RX])
         ELSE lp_comm_complete(s, c, b)
    ELSE LL_ASSERT_FAIL(s, "LL_ASSERT(0) in lp_comm_send_req")

lp_comm_st_idle(s, c, b, evt) ==
    IF evt = LP_COMMON_EVT_RUN
    THEN IF s.ctx[b].pause # 0
         THEN [s EXCEPT !.ctx[b].state = LP_COMMON_STATE_WAIT_TX]
         ELSE lp_comm_send_req(s, c, b)
    ELSE s

\* TODO in the source: the body is empty.
lp_comm_st_wait_tx(s, c, b, evt) == s

lp_comm_rx_decode(s, c, pdu) ==
    IF pdu.opcode = PDU_DATA_LLCTRL_TYPE_VERSION_IND
    THEN pdu_decode_version_ind(s, c, pdu)
    ELSE LL_ASSERT_FAIL(s, "LL_ASSERT(0) in lp_comm_rx_decode")

lp_comm_st_wait_rx(s, c, b, evt, pdu) ==
    IF evt = LP_COMMON_EVT_RESPONSE
    THEN Then(lp_comm_rx_decode(s, c, pdu), LAMBDA t : lp_comm_complete(t, c, b))
    ELSE s

\* TODO in the source: the body is empty.
lp_comm_st_wait_ntf(s, c, b, evt) == s

lp_comm_execute_fsm(s0, c, b, evt, pdu) ==
    LET s == Dispatch(s0, "lp_comm_execute_fsm", b, evt) IN
    CASE s.ctx[b].state = LP_COMMON_STATE_IDLE -> lp_comm_st_idle(s, c, b, evt)
      [] s.ctx[b].state = LP_COMMON_STATE_WAIT_TX -> lp_comm_st_wait_tx(s, c, b, evt)
      [] s.ctx[b].state = LP_COMMON_STATE_WAIT_RX -> lp_comm_st_wait_rx(s, c, b, evt, pdu)
      [] s.ctx[b].state = LP_COMMON_STATE_WAIT_NTF -> lp_comm_st_wait_ntf(s, c, b, evt)
      [] OTHER -> LL_ASSERT_FAIL(s, "LL_ASSERT(0) in lp_comm_execute_fsm")

(***************************************************************************)
(* LLCP Local Request FSM                                                  *)
(***************************************************************************)
\* Variant: the context is put at the head of the queue.
lr_enqueue_at_head(s, c, b) == [s EXCEPT !.conn[c].local.pend_proc_list = <<b>> \o @]

lr_enqueue(s, c, b) == [s EXCEPT !.conn[c].local.pend_proc_list = Append(@, b)]

\* sys_slist_get: removes the head if there is one; the block is not released.
lr_dequeue(s, c) ==
    IF s.conn[c].local.pend_proc_list = <<>> THEN s
    ELSE [s EXCEPT !.conn[c].local.pend_proc_list = Tail(@)]

\* Variant: the last context of the queue is taken instead of the first.
lr_peek_tail(s, c) ==
    IF s.conn[c].local.pend_proc_list = <<>> THEN NULL
    ELSE s.conn[c].local.pend_proc_list[Len(s.conn[c].local.pend_proc_list)]

\* sys_slist_peek_head
lr_peek(s, c) ==
    IF s.conn[c].local.pend_proc_list = <<>> THEN NULL
    ELSE Head(s.conn[c].local.pend_proc_list)

lr_act_run(s, c) ==
    LET b == lr_peek(s, c) IN
    IF s.ctx[b].proc = PROC_VERSION_EXCHANGE
    THEN lp_comm_execute_fsm(s, c, b, LP_COMMON_EVT_RUN, OtherPdu)
    ELSE LL_ASSERT_FAIL(s, "LL_ASSERT(0) in lr_act_run")

lr_act_complete(s, c) == lr_dequeue(s, c)

lr_act_connect(s, c) == s

lr_act_disconnect(s, c) == lr_dequeue(s, c)

\* Variant: a disconnected lane serves Run as an idle lane does.
lr_st_disconnect_serving_run(s, c, evt) ==
    CASE evt = LR_EVT_CONNECT ->
            [lr_act_connect(s, c) EXCEPT !.conn[c].local.state = LR_STATE_IDLE]
      [] evt = LR_EVT_RUN ->
            IF lr_peek(s, c) # NULL
            THEN Then(lr_act_run(s, c),
                      LAMBDA t : [t EXCEPT !.conn[c].local.state = LR_STATE_ACTIVE])
            ELSE s
      [] OTHER -> s

lr_st_disconnect(s, c, evt) ==
    IF evt = LR_EVT_CONNECT
    THEN [lr_act_connect(s, c) EXCEPT !.conn[c].local.state = LR_STATE_IDLE]
    ELSE s

\* Variant: Run makes the lane Active also when nothing is queued.
lr_st_idle_activating_empty(s, c, evt) ==
    CASE evt = LR_EVT_RUN ->
            IF lr_peek(s, c) # NULL
            THEN Then(lr_act_run(s, c),
                      LAMBDA t : [t EXCEPT !.conn[c].local.state = LR_STATE_ACTIVE])
            ELSE [s EXCEPT !.conn[c].local.state = LR_STATE_ACTIVE]
      [] evt = LR_EVT_DISCONNECT ->
            [lr_act_disconnect(s, c) EXCEPT !.conn[c].local.state = LR_STATE_DISCONNECT]
      [] OTHER -> s

lr_st_idle(s, c, evt) ==
    CASE evt = LR_EVT_RUN ->
            IF lr_peek(s, c) # NULL
            THEN Then(lr_act_run(s, c),
                      LAMBDA t : [t EXCEPT !.conn[c].local.state = LR_STATE_ACTIVE])
            ELSE s
      [] evt = LR_EVT_DISCONNECT ->
            [lr_act_disconnect(s, c) EXCEPT !.conn[c].local.state = LR_STATE_DISCONNECT]
      [] OTHER -> s

\* Variant: an active lane passes Run on to its head context.
lr_st_active_serving_run(s, c, evt) ==
    CASE evt = LR_EVT_RUN -> lr_act_run(s, c)
      [] evt = LR_EVT_COMPLETE ->
            [lr_act_complete(s, c) EXCEPT !.conn[c].local.state = LR_STATE_IDLE]
      [] evt = LR_EVT_DISCONNECT ->
            [lr_act_disconnect(s, c) EXCEPT !.conn[c].local.state = LR_STATE_DISCONNECT]
      [] OTHER -> s

lr_st_active(s, c, evt) ==
    CASE evt = LR_EVT_COMPLETE ->
            [lr_act_complete(s, c) EXCEPT !.conn[c].local.state = LR_STATE_IDLE]
      [] evt = LR_EVT_DISCONNECT ->
            [lr_act_disconnect(s, c) EXCEPT !.conn[c].local.state = LR_STATE_DISCONNECT]
      [] OTHER -> s

lr_execute_fsm(s0, c, evt) ==
    LET s == Dispatch(s0, "lr_execute_fsm", NULL, evt) IN
    CASE s.conn[c].local.state = LR_STATE_DISCONNECT -> lr_st_disconnect(s, c, evt)
      [] s.conn[c].local.state = LR_STATE_IDLE -> lr_st_idle(s, c, evt)
      [] s.conn[c].local.state = LR_STATE_ACTIVE -> lr_st_active(s, c, evt)
      [] OTHER -> LL_ASSERT_FAIL(s, "LL_ASSERT(0) in lr_execute_fsm")

lr_run(s, c) == lr_execute_fsm(s, c, LR_EVT_RUN)

lr_complete(s, c) == lr_execute_fsm(s, c, LR_EVT_COMPLETE)

lr_connect(s, c) == lr_execute_fsm(s, c, LR_EVT_CONNECT)

lr_disconnect(s, c) == lr_execute_fsm(s, c, LR_EVT_DISCONNECT)

lr_rx(s, c, b, pdu) == lp_comm_execute_fsm(s, c, b, LP_COMMON_EVT_RESPONSE, pdu)

(***************************************************************************)
(* LLCP Remote Procedure Common FSM                                        *)
(***************************************************************************)
RECURSIVE rr_complete(_, _)

rp_comm_rx_decode(s, c, pdu) ==
    IF pdu.opcode = PDU_DATA_LLCTRL_TYPE_VERSION_IND
    THEN pdu_decode_version_ind(s, c, pdu)
    ELSE LL_ASSERT_FAIL(s, "LL_ASSERT(0) in rp_comm_rx_decode")

rp_comm_tx(s, c, b) ==
    IF s.mem_tx = 0 THEN LL_ASSERT_FAIL(s, "LL_ASSERT(tx)")
    ELSE LET s1 == [s EXCEPT !.mem_tx = @ - 1] IN
         IF s1.ctx[b].proc = PROC_VERSION_EXCHANGE
         THEN [s1 EXCEPT !.ctx[b].opcode = PDU_DATA_LLCTRL_TYPE_VERSION_IND,
                         !.conn[c].tx_q = Append(@, pdu_encode_version_ind),
                         !.vind_tx[c] = @ + 1]
         ELSE LL_ASSERT_FAIL(s1, "LL_ASSERT(0) in rp_comm_tx")

rp_comm_st_idle(s, c, b, evt) ==
    IF evt = RP_COMMON_EVT_RUN
    THEN [s EXCEPT !.ctx[b].state = RP_COMMON_STATE_WAIT_RX]
    ELSE s

\* Variant: the response is transmitted but vex.sent is left as it was.
rp_comm_send_rsp_without_sent(s, c, b) ==
    IF s.ctx[b].proc = PROC_VERSION_EXCHANGE
    THEN IF s.conn[c].vex.sent = 0
         THEN IF ~tx_alloc_peek(s) \/ s.ctx[b].pause # 0
              THEN [s EXCEPT !.ctx[b].state = RP_COMMON_STATE_WAIT_TX]
              ELSE LET s1 == rp_comm_tx(s, c, b)
                       s3 == Then(s1, LAMBDA t : rr_complete(t, c))
                   IN  Then(s3, LAMBDA t : [t EXCEPT !.ctx[b].state = RP_COMMON_STATE_IDLE])
         ELSE LL_ASSERT_FAIL(s, "Protocol Error in rp_comm_send_rsp")
    ELSE LL_ASSERT_FAIL(s, "LL_ASSERT(0) in rp_comm_send_rsp")

\* Variant: a request arriving with vex.sent set is completed without a
\* response instead of asserting.
rp_comm_send_rsp_tolerant(s, c, b) ==
    IF s.ctx[b].proc = PROC_VERSION_EXCHANGE
    THEN IF s.conn[c].vex.sent = 0
         THEN IF ~tx_alloc_peek(s) \/ s.ctx[b].pause # 0
              THEN [s EXCEPT !.ctx[b].state = RP_COMMON_STATE_WAIT_TX]
              ELSE LET s1 == rp_comm_tx(s, c, b)
                       s2 == Then(s1, LAMBDA t : [t EXCEPT !.conn[c].vex.sent = 1])
                       s3 == Then(s2, LAMBDA t : rr_complete(t, c))
                   IN  Then(s3, LAMBDA t : [t EXCEPT !.ctx[b].state = RP_COMMON_STATE_IDLE])
         ELSE [rr_complete(s, c) EXCEPT !.ctx[b].state = RP_COMMON_STATE_IDLE]
    ELSE LL_ASSERT_FAIL(s, "LL_ASSERT(0) in rp_comm_send_rsp")

rp_comm_send_rsp(s, c, b) ==
    IF s.ctx[b].proc = PROC_VERSION_EXCHANGE
    THEN IF s.conn[c].vex.sent = 0
         THEN IF ~tx_alloc_peek(s) \/ s.ctx[b].pause # 0
              THEN [s EXCEPT !.ctx[b].state = RP_COMMON_STATE_WAIT_TX]
              ELSE LET s1 == rp_comm_tx(s, c, b)
                       s2 == Then(s1, LAMBDA t : [t EXCEPT !.conn[c].vex.sent = 1])
                       s3 == Then(s2, LAMBDA t : rr_complete(t, c))
                   IN  Then(s3, LAMBDA t : [t EXCEPT !.ctx[b].state = RP_COMMON_STATE_IDLE])
         ELSE LL_ASSERT_FAIL(s, "Protocol Error in rp_comm_send_rsp")
    ELSE LL_ASSERT_FAIL(s, "LL_ASSERT(0) in rp_comm_send_rsp")

rp_comm_st_wait_rx(s, c, b, evt, pdu) ==
    IF evt = RP_COMMON_EVT_REQUEST
    THEN Then(rp_comm_rx_decode(s, c, pdu), LAMBDA t :
             IF t.ctx[b].pause # 0
             THEN [t EXCEPT !.ctx[b].state = RP_COMMON_STATE_WAIT_TX]
             ELSE rp_comm_send_rsp(t, c, b))
    ELSE s

\* TODO in the source: the body is empty.
rp_comm_st_wait_tx(s, c, b, evt) == s

\* TODO in the source: the body is empty.
rp_comm_st_wait_ntf(s, c, b, evt) == s

rp_comm_execute_fsm(s0, c, b, evt, pdu) ==
    LET s == Dispatch(s0, "rp_comm_execute_fsm", b, evt) IN
    CASE s.ctx[b].state = RP_COMMON_STATE_IDLE -> rp_comm_st_idle(s, c, b, evt)
      [] s.ctx[b].state = RP_COMMON_STATE_WAIT_RX -> rp_comm_st_wait_rx(s, c, b, evt, pdu)
      [] s.ctx[b].state = RP_COMMON_STATE_WAIT_TX -> rp_comm_st_wait_tx(s, c, b, evt)
      [] s.ctx[b].state = RP_COMMON_STATE_WAIT_NTF -> rp_comm_st_wait_ntf(s, c, b, evt)
      [] OTHER -> LL_ASSERT_FAIL(s, "LL_ASSERT(0) in rp_comm_execute_fsm")

(***************************************************************************)
(* LLCP Remote Request FSM                                                 *)
(***************************************************************************)
rr_enqueue(s, c, b) == [s EXCEPT !.conn[c].remote.pend_proc_list = Append(@, b)]

\* sys_slist_get: removes the head if there is one; the block is not released.
rr_dequeue(s, c) ==
    IF s.conn[c].remote.pend_proc_list = <<>> THEN s
    ELSE [s EXCEPT !.conn[c].remote.pend_proc_list = Tail(@)]

\* sys_slist_peek_head
rr_peek(s, c) ==
    IF s.conn[c].remote.pend_proc_list = <<>> THEN NULL
    ELSE Head(s.conn[c].remote.pend_proc_list)

\* A NULL context would be dereferenced: the build crashes.
rr_rx(s, c, b, pdu) ==
    IF b = NULL THEN LL_ASSERT_FAIL(s, "NULL dereference in rr_rx")
    ELSE rp_comm_execute_fsm(s, c, b, RP_COMMON_EVT_REQUEST, pdu)

rr_act_run(s, c) ==
    LET b == rr_peek(s, c) IN
    IF s.ctx[b].proc = PROC_VERSION_EXCHANGE
    THEN rp_comm_execute_fsm(s, c, b, RP_COMMON_EVT_RUN, OtherPdu)
    ELSE LL_ASSERT_FAIL(s, "LL_ASSERT(0) in rr_act_run")

rr_act_complete(s, c) == rr_dequeue(s, c)

rr_act_connect(s, c) == s

rr_act_disconnect(s, c) == rr_dequeue(s, c)

rr_st_disconnect(s, c, evt) ==
    IF evt = RR_EVT_CONNECT
    THEN [rr_act_connect(s, c) EXCEPT !.conn[c].remote.state = RR_STATE_IDLE]
    ELSE s

rr_st_idle(s, c, evt) ==
    CASE evt = RR_EVT_RUN ->
            IF rr_peek(s, c) # NULL
            THEN Then(rr_act_run(s, c),
                      LAMBDA t : [t EXCEPT !.conn[c].remote.state = RR_STATE_ACTIVE])
            ELSE s
      [] evt = RR_EVT_DISCONNECT ->
            [rr_act_disconnect(s, c) EXCEPT !.conn[c].remote.state = RR_STATE_DISCONNECT]
      [] OTHER -> s

rr_st_active(s, c, evt) ==
    CASE evt = RR_EVT_COMPLETE ->
            [rr_act_complete(s, c) EXCEPT !.conn[c].remote.state = RR_STATE_IDLE]
      [] evt = RR_EVT_DISCONNECT ->
            [rr_act_disconnect(s, c) EXCEPT !.conn[c].remote.state = RR_STATE_DISCONNECT]
      [] OTHER -> s

rr_execute_fsm(s0, c, evt) ==
    LET s == Dispatch(s0, "rr_execute_fsm", NULL, evt) IN
    CASE s.conn[c].remote.state = RR_STATE_DISCONNECT -> rr_st_disconnect(s, c, evt)
      [] s.conn[c].remote.state = RR_STATE_IDLE -> rr_st_idle(s, c, evt)
      [] s.conn[c].remote.state = RR_STATE_ACTIVE -> rr_st_active(s, c, evt)
      [] OTHER -> LL_ASSERT_FAIL(s, "LL_ASSERT(0) in rr_execute_fsm")

rr_run(s, c) == rr_execute_fsm(s, c, RR_EVT_RUN)

rr_complete(s, c) == rr_execute_fsm(s, c, RR_EVT_COMPLETE)

rr_connect(s, c) == rr_execute_fsm(s, c, RR_EVT_CONNECT)

rr_disconnect(s, c) == rr_execute_fsm(s, c, RR_EVT_DISCONNECT)

\* Variant: a failed context allocation is asserted instead of returned from.
rr_new_asserting_ctx(s, c, pdu) ==
    IF pdu.opcode # PDU_DATA_LLCTRL_TYPE_VERSION_IND
    THEN LL_ASSERT_FAIL(s, "LL_ASSERT(0) in rr_new")
    ELSE LET a == create_procedure(s, PROC_VERSION_EXCHANGE) IN
         IF a.p = NULL THEN LL_ASSERT_FAIL(s, "LL_ASSERT(ctx) in rr_new")
         ELSE LET s1 == rr_enqueue(a.s, c, a.p)
                  s2 == rr_run(s1, c)
              IN  Then(s2, LAMBDA t : rr_rx(t, c, rr_peek(t, c), pdu))

rr_new(s, c, pdu) ==
    IF pdu.opcode # PDU_DATA_LLCTRL_TYPE_VERSION_IND THEN LL_ASSERT_FAIL(s, "LL_ASSERT(0) in rr_new")
    ELSE LET a == create_procedure(s, PROC_VERSION_EXCHANGE) IN
         IF a.p = NULL THEN s
         ELSE LET s1 == rr_enqueue(a.s, c, a.p)
                  s2 == rr_run(s1, c)
              IN  Then(s2, LAMBDA t : rr_rx(t, c, rr_peek(t, c), pdu))

(***************************************************************************)
(* LLCP Public API                                                         *)
(***************************************************************************)
\* The state ull_cp_init leaves: all three pools free.  The pool memory is
\* not cleared by it, so the opcode byte of a block is whatever it held.
ull_cp_init(garbage) ==
    [mem_ctx |-> [i \in 1..PROC_CTX_BUF_NUM |-> i],
     mem_tx |-> TX_CTRL_BUF_NUM,
     mem_ntf |-> NTF_BUF_NUM,
     ctx |-> [b \in Blocks |->
                [proc |-> PROC_UNKNOWN, state |-> LP_COMMON_STATE_IDLE,
                 opcode |-> garbage[b], collision |-> 0, pause |-> 0]]]

\* vind_tx counts from conn_init: a connection lifetime starts here.
ull_cp_conn_init(s, c) ==
    [s EXCEPT !.conn[c].local = [state |-> LR_STATE_DISCONNECT, pend_proc_list |-> <<>>],
              !.conn[c].remote = [state |-> RR_STATE_DISCONNECT, pend_proc_list |-> <<>>],
              !.conn[c].vex = VexZero,
              !.vind_tx[c] = 0]

\* Variant: the local lane is run before the remote lane.
ull_cp_run_local_first(s, c) == Then(lr_run(s, c), LAMBDA t : rr_run(t, c))

ull_cp_run(s, c) == Then(rr_run(s, c), LAMBDA t : lr_run(t, c))

ull_cp_connect(s, c) == Then(rr_connect(s, c), LAMBDA t : lr_connect(t, c))

\* Variant: disconnect also clears the version-exchange record.
ull_cp_disconnect_clearing_vex(s, c) ==
    Then(rr_disconnect(s, c),
         LAMBDA t : [lr_disconnect(t, c) EXCEPT !.conn[c].vex = VexZero])

ull_cp_disconnect(s, c) == Then(rr_disconnect(s, c), LAMBDA t : lr_disconnect(t, c))

ull_cp_version_exchange(s, c) ==
    LET a == create_procedure(s, PROC_VERSION_EXCHANGE) IN
    IF a.p = NULL THEN [s |-> s, status |-> BT_HCI_ERR_CMD_DISALLOWED]
    ELSE [s |-> lr_enqueue(a.s, c, a.p), status |-> BT_HCI_ERR_SUCCESS]

\* Variant: a queued local context takes the PDU whatever opcode it awaits.
ull_cp_rx_without_opcode_check(s, c, pdu) ==
    LET lctx == lr_peek(s, c)
        rctx == rr_peek(s, c)
    IN  IF lctx # NULL
        THEN lr_rx(s, c, lctx, pdu)
        ELSE IF rctx # NULL /\ s.ctx[rctx].opcode = pdu.opcode
             THEN rr_rx(s, c, rctx, pdu)
             ELSE rr_new(s, c, pdu)

ull_cp_rx(s, c, pdu) ==
    LET lctx == lr_peek(s, c)
        rctx == rr_peek(s, c)
    IN  IF lctx # NULL /\ s.ctx[lctx].opcode = pdu.opcode
        THEN lr_rx(s, c, lctx, pdu)
        ELSE IF rctx # NULL /\ s.ctx[rctx].opcode = pdu.opcode
             THEN rr_rx(s, c, rctx, pdu)
             ELSE rr_new(s, c, pdu)

(***************************************************************************)
(* The state machine: one action per entry point, plus the two external    *)
(* collaborators that give buffers back (the radio and the host).          *)
(***************************************************************************)
Connected(c) == conn[c].local.state # LR_STATE_DISCONNECT

Init ==
    /\ \E garbage \in [Blocks -> Opcodes] :
          LET p == ull_cp_init(garbage) IN
          /\ mem_ctx = p.mem_ctx
          /\ mem_tx = p.mem_tx
          /\ mem_ntf = p.mem_ntf
          /\ ctx = p.ctx
    /\ conn = [c \in Conns |->
                 [local |-> [state |-> LR_STATE_DISCONNECT, pend_proc_list |-> <<>>],
                  remote |-> [state |-> RR_STATE_DISCONNECT, pend_proc_list |-> <<>>],
                  vex |-> VexZero,
                  tx_q |-> <<>>]]
    /\ ll_rx_q = <<>>
    /\ aborted = FALSE
    /\ assert_failed = ""
    /\ vind_tx = [c \in Conns |-> 0]
    /\ evt_log = <<>>
    /\ lastOp = [op |-> "init", conn |-> 0, status |-> "none"]

\* conn_init starts a connection lifetime on a connection object that is not
\* connected.
ConnInit(c) ==
    /\ ~aborted
    /\ ~Connected(c)
    /\ Becomes(ull_cp_conn_init(Cur, c))
    /\ lastOp' = [op |-> "conn_init", conn |-> c, status |-> "none"]

Connect(c) ==
    /\ ~aborted
    /\ Becomes(ull_cp_connect(Cur, c))
    /\ lastOp' = [op |-> "connect", conn |-> c, status |-> "none"]

Disconnect(c) ==
    /\ ~aborted
    /\ Becomes(ull_cp_disconnect(Cur, c))
    /\ lastOp' = [op |-> "disconnect", conn |-> c, status |-> "none"]

Run(c) ==
    /\ ~aborted
    /\ Becomes(ull_cp_run(Cur, c))
    /\ lastOp' = [op |-> "run", conn |-> c, status |-> "none"]

VersionExchange(c) ==
    /\ ~aborted
    /\ LET r == ull_cp_version_exchange(Cur, c) IN
       /\ Becomes(r.s)
       /\ lastOp' = [op |-> "version_exchange", conn |-> c, status |-> r.status]

\* rx must not be called on a connection in Disconnected.
Rx(c, pdu) ==
    /\ ~aborted
    /\ Connected(c)
    /\ Becomes(ull_cp_rx(Cur, c, pdu))
    /\ lastOp' = [op |-> "rx", conn |-> c, status |-> "none"]

\* The radio takes the head PDU of the connection's transmit queue and gives
\* its node back to the transmit pool.
TxDone(c) ==
    /\ ~aborted
    /\ conn[c].tx_q # <<>>
    /\ conn' = [conn EXCEPT ![c].tx_q = Tail(@)]
    /\ mem_tx' = mem_tx + 1
    /\ lastOp' = [op |-> "tx_done", conn |-> c, status |-> "none"]
    /\ evt_log' = <<>>
    /\ UNCHANGED <<mem_ctx, mem_ntf, ctx, ll_rx_q, aborted, assert_failed, vind_tx>>

\* The host takes the head notification and gives its node back to the pool.
NtfDone ==
    /\ ~aborted
    /\ ll_rx_q # <<>>
    /\ ll_rx_q' = Tail(ll_rx_q)
    /\ mem_ntf' = mem_ntf + 1
    /\ lastOp' = [op |-> "ntf_done", conn |-> 0, status |-> "none"]
    /\ evt_log' = <<>>
    /\ UNCHANGED <<mem_ctx, mem_tx, ctx, conn, aborted, assert_failed, vind_tx>>

Next ==
    \/ \E c \in Conns : ConnInit(c)
    \/ \E c \in Conns : Connect(c)
    \/ \E c \in Conns : Disconnect(c)
    \/ \E c \in Conns : Run(c)
    \/ \E c \in Conns : VersionExchange(c)
    \/ \E c \in Conns, pdu \in RxPdus : Rx(c, pdu)
    \/ \E c \in Conns : TxDone(c)
    \/ NtfDone

Spec == Init /\ [][Next]_vars

(***************************************************************************)
(* Properties                                                              *)
(***************************************************************************)
Range(q) == {q[i] : i \in 1..Len(q)}

RECURSIVE SumOver(_, _)
SumOver(S, f) ==
    IF S = {} THEN 0
    ELSE LET x == CHOOSE y \in S : TRUE IN f[x] + SumOver(S \ {x}, f)

LocalQ(c) == conn[c].local.pend_proc_list
RemoteQ(c) == conn[c].remote.pend_proc_list

\* The step taken is entry point op on connection c.
Called(op, c) == lastOp'.op = op /\ lastOp'.conn = c

VersionPdus == {PeerPdu(v) : v \in PeerVersions}

\* C1: between one conn_init and the next, at most one VERSION_IND is
\* enqueued on a connection's transmit queue, by lp_comm_tx and rp_comm_tx
\* together.
C1_AtMostOneVersionInd == \A c \in Conns : vind_tx[c] <= 1

\* A connection that answered the peer's VERSION_IND and afterwards completed
\* a local version exchange on the same lifetime.
C1_Witness ==
    \E c \in Conns :
        /\ vind_tx[c] = 1
        /\ conn[c].vex.sent = 1
        /\ lastOp.op = "run" /\ lastOp.conn = c
        /\ LocalQ(c) # <<>>
        /\ ctx[Head(LocalQ(c))].state = LP_COMMON_STATE_IDLE
        /\ conn[c].local.state = LR_STATE_ACTIVE
        /\ ll_rx_q # <<>>

\* C2: on a connected connection with vex.sent set and an idle local lane,
\* submit_version_exchange followed by run (a notification buffer free)
\* transmits no PDU, enqueues exactly one host notification, and leaves the
\* local lane Idle with the submitted context removed from its queue.
C2_LocalRequestAlreadySent ==
    [][\A c \in Conns :
          ( /\ lastOp = [op |-> "version_exchange", conn |-> c,
                         status |-> BT_HCI_ERR_SUCCESS]
            /\ conn[c].local.state = LR_STATE_IDLE
            /\ Len(LocalQ(c)) = 1
            /\ conn[c].vex.sent = 1
            /\ mem_ntf > 0
            /\ Called("run", c) )
          => ( /\ vind_tx'[c] = vind_tx[c]
               /\ conn'[c].tx_q = conn[c].tx_q
               /\ Len(ll_rx_q') = Len(ll_rx_q) + 1
               /\ conn'[c].local.state = LR_STATE_IDLE
               /\ conn'[c].local.pend_proc_list = <<>> )]_vars

\* C3: after disconnect of a connected connection both lane queues are
\* empty, every context that was in them is back in the context pool, and
\* both lanes are Disconnected.
C3_DisconnectDrains ==
    [][\A c \in Conns :
          (Connected(c) /\ Called("disconnect", c))
          => ( /\ conn'[c].local.pend_proc_list = <<>>
               /\ conn'[c].remote.pend_proc_list = <<>>
               /\ Range(LocalQ(c)) \cup Range(RemoteQ(c)) \subseteq Range(mem_ctx')
               /\ conn'[c].local.state = LR_STATE_DISCONNECT
               /\ conn'[c].remote.state = RR_STATE_DISCONNECT )]_vars

\* C4: the number of context-pool blocks acquired equals the number of
\* contexts held in the local and remote lane queues, summed over the
\* connections.
C4_PoolBalance ==
    PROC_CTX_BUF_NUM - Len(mem_ctx) =
        SumOver(Conns, [c \in Conns |-> Len(LocalQ(c)) + Len(RemoteQ(c))])

\* C5: a local version exchange parked in WaitTx (no transmit buffer was free
\* at run) transmits the VERSION_IND and moves to WaitRx on a run at which a
\* transmit buffer is free.
C5_WaitTxResumes ==
    [][\A c \in Conns :
          ( /\ conn[c].local.state = LR_STATE_ACTIVE
            /\ LocalQ(c) # <<>>
            /\ ctx[Head(LocalQ(c))].state = LP_COMMON_STATE_WAIT_TX
            /\ conn[c].vex.sent = 0
            /\ mem_tx > 0
            /\ Called("run", c) )
          => ( /\ vind_tx'[c] = vind_tx[c] + 1
               /\ ctx'[Head(LocalQ(c))].state = LP_COMMON_STATE_WAIT_RX )]_vars

\* C6: a local version exchange parked in WaitNtf enqueues the host
\* notification, signals Complete and returns the lane to Idle on a run at
\* which a notification buffer is free.
C6_WaitNtfResumes ==
    [][\A c \in Conns :
          ( /\ conn[c].local.state = LR_STATE_ACTIVE
            /\ LocalQ(c) # <<>>
            /\ ctx[Head(LocalQ(c))].state = LP_COMMON_STATE_WAIT_NTF
            /\ mem_ntf > 0
            /\ Called("run", c) )
          => ( /\ Len(ll_rx_q') = Len(ll_rx_q) + 1
               /\ conn'[c].local.state = LR_STATE_IDLE
               /\ conn'[c].local.pend_proc_list = Tail(LocalQ(c)) )]_vars

\* The record the codec caches for a peer PDU, and the notification it
\* then sends to the host.
Decoded(pdu) ==
    [version_number |-> pdu.version_number,
     company_id |-> pdu.company_id[1] + 256 * pdu.company_id[2],
     sub_version_number |-> pdu.sub_version_number[1] + 256 * pdu.sub_version_number[2]]

\* Run right after a successful submit on a connected connection with
\* vex.sent clear and a transmit and a notification buffer free.
C7_SubmitThenRun(c) ==
    /\ lastOp = [op |-> "version_exchange", conn |-> c, status |-> BT_HCI_ERR_SUCCESS]
    /\ Connected(c)
    /\ conn[c].vex.sent = 0
    /\ mem_tx > 0
    /\ mem_ntf > 0
    /\ Called("run", c)

\* One VERSION_IND with our identity enqueued; the submitted context in WaitRx.
C7_Requested(c) ==
    /\ vind_tx'[c] = vind_tx[c] + 1
    /\ conn'[c].tx_q = Append(conn[c].tx_q, pdu_encode_version_ind)
    /\ ctx'[LocalQ(c)[Len(LocalQ(c))]].state = LP_COMMON_STATE_WAIT_RX

\* rx of a peer VERSION_IND while the local head context is in WaitRx and a
\* notification buffer is free: decoded, one notification with the peer's
\* values, context removed, lane Idle.
C7_Response ==
    \A c \in Conns, pdu \in VersionPdus :
        ( /\ conn[c].local.state = LR_STATE_ACTIVE
          /\ LocalQ(c) # <<>>
          /\ ctx[Head(LocalQ(c))].state = LP_COMMON_STATE_WAIT_RX
          /\ mem_ntf > 0
          /\ Rx(c, pdu) )
        => ( /\ conn'[c].vex.valid = 1
             /\ conn'[c].vex.cached = Decoded(pdu)
             /\ ll_rx_q' = Append(ll_rx_q, pdu)
             /\ conn'[c].local.pend_proc_list = Tail(LocalQ(c))
             /\ conn'[c].local.state = LR_STATE_IDLE )

\* C7 as stated: on a connected connection with vex.sent false and free
\* transmit and notification buffers, submit then run enqueues exactly one
\* VERSION_IND and puts the context in WaitRx; a following rx of a peer
\* VERSION_IND decodes it, enqueues exactly one notification, removes the
\* context and returns the local lane to Idle.
C7_LocalHappyPath_AsStated ==
    [][ /\ \A c \in Conns : C7_SubmitThenRun(c) => C7_Requested(c)
        /\ C7_Response ]_vars

\* C7 amended: the same, for a submit made on an idle local lane with an
\* empty queue (the submitted context is then the only one queued).
C7_LocalHappyPath ==
    [][ /\ \A c \in Conns :
              ( /\ C7_SubmitThenRun(c)
                /\ conn[c].local.state = LR_STATE_IDLE
                /\ Len(LocalQ(c)) = 1 )
              => C7_Requested(c)
        /\ C7_Response ]_vars

\* The local exchange ran to its end: request sent, response decoded, host
\* notified, lane Idle and empty again.
C7_Witness ==
    \E c \in Conns :
        /\ lastOp.op = "rx" /\ lastOp.conn = c
        /\ conn[c].local = [state |-> LR_STATE_IDLE, pend_proc_list |-> <<>>]
        /\ conn[c].remote.pend_proc_list = <<>>
        /\ conn[c].vex.valid = 1 /\ conn[c].vex.sent = 1
        /\ vind_tx[c] = 1
        /\ Len(ll_rx_q) = 1
        /\ \A d \in Conns \ {c} : conn[d].vex.valid = 0

\* rx of a peer VERSION_IND on a connected connection with both lanes idle
\* and empty, vex.sent clear and a transmit buffer free.
C8_Pre(c, pdu) ==
    /\ conn[c].local = [state |-> LR_STATE_IDLE, pend_proc_list |-> <<>>]
    /\ conn[c].remote = [state |-> RR_STATE_IDLE, pend_proc_list |-> <<>>]
    /\ conn[c].vex.sent = 0
    /\ mem_tx > 0
    /\ Rx(c, pdu)

C8_Post(c) ==
    /\ vind_tx'[c] = vind_tx[c] + 1
    /\ conn'[c].tx_q = Append(conn[c].tx_q, pdu_encode_version_ind)
    /\ conn'[c].vex.sent = 1
    /\ conn'[c].vex.valid = 1
    /\ ll_rx_q' = ll_rx_q
    /\ conn'[c].remote = [state |-> RR_STATE_IDLE, pend_proc_list |-> <<>>]

\* C8 as stated: on a connected connection with both lanes idle and empty,
\* vex.sent false and a transmit buffer free, rx of a peer VERSION_IND
\* enqueues exactly one VERSION_IND, sets vex.sent and vex.valid, enqueues no
\* host notification and leaves the remote lane Idle with an empty queue.
C8_RemoteHappyPath_AsStated ==
    [][\A c \in Conns, pdu \in VersionPdus : C8_Pre(c, pdu) => C8_Post(c)]_vars

\* C8 amended: the same, when the context pool has a free block.
C8_RemoteHappyPath ==
    [][\A c \in Conns, pdu \in VersionPdus :
          (C8_Pre(c, pdu) /\ mem_ctx # <<>>) => C8_Post(c)]_vars

\* The remote exchange ran to its end on a fresh connection.
C8_Witness ==
    \E c \in Conns :
        /\ lastOp.op = "rx" /\ lastOp.conn = c
        /\ conn[c].local = [state |-> LR_STATE_IDLE, pend_proc_list |-> <<>>]
        /\ conn[c].remote = [state |-> RR_STATE_IDLE, pend_proc_list |-> <<>>]
        /\ conn[c].vex.sent = 1 /\ conn[c].vex.valid = 1
        /\ vind_tx[c] = 1
        /\ conn[c].tx_q = <<pdu_encode_version_ind>>
        /\ ll_rx_q = <<>>

\* C9: submit_version_exchange returns CommandDisallowed exactly when the
\* context pool has no free block, and then changes no lane queue, lane
\* state, pool or version cache; otherwise it returns Success, takes exactly
\* one context from the pool and appends it at the tail of the local lane's
\* queue with inner state Idle.
C9_Submit ==
    [][\A c \in Conns :
          Called("version_exchange", c)
          => IF mem_ctx = <<>>
             THEN /\ lastOp'.status = BT_HCI_ERR_CMD_DISALLOWED
                  /\ UNCHANGED <<mem_ctx, mem_tx, mem_ntf, conn, ctx, ll_rx_q>>
             ELSE /\ lastOp'.status = BT_HCI_ERR_SUCCESS
                  /\ mem_ctx' = Tail(mem_ctx)
                  /\ UNCHANGED <<mem_tx, mem_ntf>>
                  /\ conn' = [conn EXCEPT ![c].local.pend_proc_list =
                                              Append(@, Head(mem_ctx))]
                  /\ ctx'[Head(mem_ctx)].state = LP_COMMON_STATE_IDLE]_vars

\* A submit refused because the context pool is exhausted.
C9_Witness ==
    /\ lastOp.op = "version_exchange"
    /\ lastOp.status = BT_HCI_ERR_CMD_DISALLOWED
    /\ mem_ctx = <<>>

\* The local head context exists and awaits the PDU's opcode.
LocalAwaits(c, pdu) ==
    LocalQ(c) # <<>> /\ ctx[Head(LocalQ(c))].opcode = pdu.opcode

RemoteAwaits(c, pdu) ==
    RemoteQ(c) # <<>> /\ ctx[Head(RemoteQ(c))].opcode = pdu.opcode

\* The PDU goes to the local head context as Response: no context is taken
\* from the pool, the remote lane is untouched, and a context in WaitRx
\* decodes the PDU and completes or parks in WaitNtf.
C10_RoutedLocal ==
    \A c \in Conns, pdu \in RxPdus :
        (LocalAwaits(c, pdu) /\ Rx(c, pdu))
        => LET h == Head(LocalQ(c)) IN
           /\ mem_ctx' = mem_ctx
           /\ conn'[c].remote = conn[c].remote
           /\ IF ctx[h].state = LP_COMMON_STATE_WAIT_RX
              THEN /\ conn'[c].vex.valid = 1
                   /\ conn'[c].vex.cached = Decoded(pdu)
                   /\ ctx'[h].state \in {LP_COMMON_STATE_IDLE, LP_COMMON_STATE_WAIT_NTF}
              ELSE UNCHANGED <<ctx, conn, mem_tx, mem_ntf, ll_rx_q, aborted>>

\* A context is taken from the pool and appended to the remote lane (whose
\* head may then complete and be dequeued within the same call).
C10_Spawned(c) ==
    /\ mem_ctx # <<>>
    /\ mem_ctx' = Tail(mem_ctx)
    /\ ctx'[Head(mem_ctx)].proc = PROC_VERSION_EXCHANGE
    /\ LET q == Append(RemoteQ(c), Head(mem_ctx)) IN
       conn'[c].remote.pend_proc_list \in {q, Tail(q)}

\* C10 as stated: a PDU whose opcode the local head context awaits is
\* delivered as Response to it and no remote context is created; if neither
\* lane's head context awaits the opcode (of a PDU that maps to a procedure,
\* a VERSION_IND), a new remote procedure context is allocated and appended
\* to the remote lane.
C10_Routing_AsStated ==
    [][ /\ C10_RoutedLocal
        /\ \A c \in Conns, pdu \in VersionPdus :
              (~LocalAwaits(c, pdu) /\ ~RemoteAwaits(c, pdu) /\ Rx(c, pdu))
              => C10_Spawned(c) ]_vars

\* C10 amended: the second half holds when the context pool has a free block.
C10_Routing ==
    [][ /\ C10_RoutedLocal
        /\ \A c \in Conns, pdu \in VersionPdus :
              ( /\ ~LocalAwaits(c, pdu) /\ ~RemoteAwaits(c, pdu)
                /\ mem_ctx # <<>>
                /\ Rx(c, pdu) )
              => C10_Spawned(c) ]_vars

\* A VERSION_IND arrived while a local context was queued that did not await
\* it: a remote procedure was spawned and answered.
C10_Witness ==
    \E c \in Conns :
        /\ lastOp.op = "rx" /\ lastOp.conn = c
        /\ LocalQ(c) # <<>>
        /\ ctx[Head(LocalQ(c))].opcode # PDU_DATA_LLCTRL_TYPE_VERSION_IND
        /\ RemoteQ(c) = <<>>
        /\ conn[c].vex.sent = 1
        /\ conn[c].tx_q # <<>>

\* C11: whenever a host notification is enqueued for a connection, a peer
\* VERSION_IND has been decoded on that connection since its last conn_init
\* (vex.valid is set).
C11_NotifyAfterDecode ==
    [][\A c \in Conns :
          (Len(ll_rx_q') > Len(ll_rx_q) /\ lastOp'.conn = c)
          => conn'[c].vex.valid = 1]_vars

\* C12: no buffer is taken from an empty pool: a VERSION_IND is enqueued for
\* transmission only by a call that found the transmit pool non-empty and
\* takes one node from it, a notification is enqueued only by a call that
\* found the notification pool non-empty and takes one node from it, and the
\* assertions LL_ASSERT(tx) and LL_ASSERT(ntf) never fail.
C12_NoEmptyPoolAlloc ==
    [][ /\ \A c \in Conns :
              vind_tx'[c] > vind_tx[c] => (mem_tx > 0 /\ mem_tx' = mem_tx - 1)
        /\ Len(ll_rx_q') > Len(ll_rx_q) => (mem_ntf > 0 /\ mem_ntf' = mem_ntf - 1)
        /\ assert_failed' \notin {"LL_ASSERT(tx)", "LL_ASSERT(ntf)"} ]_vars

\* A run found the transmit pool empty and parked the local request in WaitTx.
C12_Witness ==
    \E c \in Conns :
        /\ lastOp.op = "run" /\ lastOp.conn = c
        /\ mem_tx = 0
        /\ ~aborted
        /\ conn[c].vex.sent = 0
        /\ LocalQ(c) # <<>>
        /\ ctx[Head(LocalQ(c))].state = LP_COMMON_STATE_WAIT_TX

\* The contexts the last call dispatched an event to.
Dispatched(log) == {log[k].ctx : k \in 1..Len(log)} \ {NULL}

\* One lane over one step, q its queue before and q2 after: a context b queued
\* behind another gets no event and is not changed, and stays queued behind
\* every earlier context a that is still in the queue.
LaneFifo(q, q2) ==
    \A i \in 2..Len(q) :
        /\ q[i] \notin Dispatched(evt_log')
        /\ ctx'[q[i]] = ctx[q[i]]
        /\ \A j \in 1..(i - 1) :
              q[j] \in Range(q2)
              => \E m, n \in 1..Len(q2) : m < n /\ q2[m] = q[j] /\ q2[n] = q[i]

\* C13: within a lane procedures complete in FIFO order: of two contexts a, b
\* appended to the same lane with a before b, b receives no Run, Response or
\* Request event and does not complete while a is still in the queue.
C13_Fifo ==
    [][\A c \in Conns :
          /\ LaneFifo(LocalQ(c), conn'[c].local.pend_proc_list)
          /\ LaneFifo(RemoteQ(c), conn'[c].remote.pend_proc_list)]_vars

\* Two local requests queued; a run served the first (now in WaitRx) and left
\* the second as submitted.
C13_Witness ==
    \E c \in Conns :
        /\ lastOp.op = "run" /\ lastOp.conn = c
        /\ Len(LocalQ(c)) = 2
        /\ LocalQ(c)[1] \in Dispatched(evt_log)
        /\ ctx[LocalQ(c)[1]].state = LP_COMMON_STATE_WAIT_RX
        /\ ctx[LocalQ(c)[2]].state = LP_COMMON_STATE_IDLE

\* rx of a VERSION_IND that spawns a remote procedure (no head context awaits
\* it, a context block is free) whose Request finds the remote head context in
\* WaitRx: the head is the new context or an earlier one, taken to WaitRx by
\* the Run of an idle lane or found there.
C14_RequestInWaitRx(c, pdu) ==
    /\ ~LocalAwaits(c, pdu) /\ ~RemoteAwaits(c, pdu)
    /\ mem_ctx # <<>>
    /\ LET st == IF RemoteQ(c) = <<>> THEN RP_COMMON_STATE_IDLE
                 ELSE ctx[Head(RemoteQ(c))].state
           h == IF RemoteQ(c) = <<>> THEN Head(mem_ctx) ELSE Head(RemoteQ(c))
       IN  /\ \/ st = RP_COMMON_STATE_WAIT_RX
              \/ st = RP_COMMON_STATE_IDLE /\ conn[c].remote.state = RR_STATE_IDLE
           /\ ctx[h].pause = 0
    /\ Rx(c, pdu)

\* C14: a VERSION_IND received as a new remote request on a connection that
\* has already transmitted its VERSION_IND (vex.sent set, the remote context
\* in WaitRx and not paused) aborts the engine with the protocol-error
\* assertion, and nothing is transmitted in response.
C14_ProtocolError ==
    [][\A c \in Conns, pdu \in VersionPdus :
          (conn[c].vex.sent = 1 /\ C14_RequestInWaitRx(c, pdu))
          => ( /\ aborted'
               /\ assert_failed' = "Protocol Error in rp_comm_send_rsp"
               /\ conn'[c].tx_q = conn[c].tx_q
               /\ vind_tx' = vind_tx
               /\ mem_tx' = mem_tx )]_vars

\* The peer's second VERSION_IND after a completed exchange stopped the engine.
C14_Witness ==
    \E c \in Conns :
        /\ lastOp.op = "rx" /\ lastOp.conn = c
        /\ aborted
        /\ assert_failed = "Protocol Error in rp_comm_send_rsp"
        /\ conn[c].vex.sent = 1
        /\ vind_tx[c] = 1
        /\ RemoteQ(c) # <<>>
        /\ ctx[Head(RemoteQ(c))].state = RP_COMMON_STATE_WAIT_RX

\* C15: vex.sent is monotone: once set on a connection it stays set through
\* every run, rx, submit, connect and disconnect; only conn_init resets it,
\* together with vex.valid and the cached record, and puts both lanes in
\* Disconnected with empty queues.
C15_SentMonotone ==
    [][\A c \in Conns :
          /\ (conn[c].vex.sent = 1 /\ ~Called("conn_init", c))
             => conn'[c].vex.sent = 1
          /\ Called("conn_init", c)
             => ( /\ conn'[c].vex = VexZero
                  /\ conn'[c].local =
                        [state |-> LR_STATE_DISCONNECT, pend_proc_list |-> <<>>]
                  /\ conn'[c].remote =
                        [state |-> RR_STATE_DISCONNECT, pend_proc_list |-> <<>>] )]_vars

\* A connection that sent its VERSION_IND, was disconnected and connected
\* again: vex.sent is still set.
C15_Witness ==
    \E c \in Conns :
        /\ lastOp.op = "connect" /\ lastOp.conn = c
        /\ Connected(c)
        /\ conn[c].vex.sent = 1
        /\ conn[c].tx_q = <<>>
        /\ LocalQ(c) = <<>> /\ RemoteQ(c) = <<>>

\* The engine's data: pools, contexts, connection objects, queues.
engine == <<mem_ctx, mem_tx, mem_ntf, ctx, conn, ll_rx_q, aborted, vind_tx>>

\* C16: a lane in Disconnected ignores every event except Connect: on a
\* connection whose lanes are Disconnected (after conn_init or disconnect),
\* run, and likewise disconnect, changes no lane state, queue or context,
\* transmits nothing and notifies nothing, even when contexts are queued.
C16_DisconnectedIgnores ==
    [][\A c \in Conns :
          ( /\ conn[c].local.state = LR_STATE_DISCONNECT
            /\ conn[c].remote.state = RR_STATE_DISCONNECT
            /\ (Called("run", c) \/ Called("disconnect", c)) )
          => UNCHANGED engine]_vars

\* A run on a disconnected connection that holds a submitted request: the
\* Run reached both lanes and the request is still as submitted.
C16_Witness ==
    \E c \in Conns :
        /\ lastOp.op = "run" /\ lastOp.conn = c
        /\ conn[c].local.state = LR_STATE_DISCONNECT
        /\ conn[c].remote.state = RR_STATE_DISCONNECT
        /\ LocalQ(c) # <<>>
        /\ ctx[Head(LocalQ(c))].state = LP_COMMON_STATE_IDLE
        /\ Len(evt_log) = 2
        /\ mem_tx > 0

\* The positions in the log at which fsm got event evt.
LogAt(log, fsm, evt) == {k \in 1..Len(log) : log[k].fsm = fsm /\ log[k].evt = evt}

\* C17: on every run(conn) the Run event is delivered to the remote lane
\* before the local lane: the remote lane's FSM gets Run first, whatever it
\* dispatches to a remote context follows, and only then the local lane's
\* FSM gets Run (and dispatches to a local context).
C17_RemoteBeforeLocal ==
    [][\A c \in Conns :
          Called("run", c)
          => LET log == evt_log'
                 r == LogAt(log, "rr_execute_fsm", RR_EVT_RUN)
                 l == LogAt(log, "lr_execute_fsm", LR_EVT_RUN)
             IN  /\ r = {1}
                 /\ Cardinality(l) = 1
                 /\ \A k \in 1..Len(log) :
                       /\ log[k].fsm = "rp_comm_execute_fsm" => \A j \in l : k < j
                       /\ log[k].fsm = "lp_comm_execute_fsm" => \A j \in l : k > j]_vars

\* A run that gave Run to the remote lane (nothing queued there), then to the
\* local lane, which started the queued request.
C17_Witness ==
    \E c \in Conns :
        /\ lastOp.op = "run" /\ lastOp.conn = c
        /\ Len(evt_log) = 3
        /\ evt_log[1].fsm = "rr_execute_fsm"
        /\ evt_log[2].fsm = "lr_execute_fsm"
        /\ evt_log[3] = [fsm |-> "lp_comm_execute_fsm", ctx |-> Head(LocalQ(c)),
                         evt |-> LP_COMMON_EVT_RUN]
        /\ conn[c].local.state = LR_STATE_ACTIVE
        /\ ctx[Head(LocalQ(c))].state = LP_COMMON_STATE_WAIT_RX

\* The log holds no dispatch to the inner FSM fsm.
NotDispatched(log, fsm) == \A k \in 1..Len(log) : log[k].fsm # fsm

\* C18: while a lane is Active a Run event is ignored: it is not dispatched to
\* the head context's inner FSM and changes neither the lane state, the queue
\* nor any context of the lane, whatever inner state the head context is in.
C18_ActiveIgnoresRun ==
    [][\A c \in Conns :
          Called("run", c)
          => /\ conn[c].local.state = LR_STATE_ACTIVE
                => ( /\ NotDispatched(evt_log', "lp_comm_execute_fsm")
                     /\ conn'[c].local = conn[c].local
                     /\ \A b \in Range(LocalQ(c)) : ctx'[b] = ctx[b] )
             /\ conn[c].remote.state = RR_STATE_ACTIVE
                => ( /\ NotDispatched(evt_log', "rp_comm_execute_fsm")
                     /\ conn'[c].remote = conn[c].remote
                     /\ \A b \in Range(RemoteQ(c)) : ctx'[b] = ctx[b] )
             /\ ( /\ conn[c].local.state = LR_STATE_ACTIVE
                  /\ conn[c].remote.state \in {RR_STATE_ACTIVE, RR_STATE_DISCONNECT} )
                => UNCHANGED engine]_vars

\* A run on an active local lane whose head context waits in WaitTx although
\* a transmit buffer is free: the Run was ignored.
C18_Witness ==
    \E c \in Conns :
        /\ lastOp.op = "run" /\ lastOp.conn = c
        /\ conn[c].local.state = LR_STATE_ACTIVE
        /\ ctx[Head(LocalQ(c))].state = LP_COMMON_STATE_WAIT_TX
        /\ conn[c].vex.sent = 0
        /\ mem_tx > 0
        /\ NotDispatched(evt_log, "lp_comm_execute_fsm")

\* C19: whenever a local-lane context is in WaitRx, the opcode it awaits is
\* VERSION_IND, the opcode of the PDU it last transmitted, and vex.sent is set
\* on its connection.
C19_WaitRxAwaitsVersionInd ==
    \A c \in Conns : \A b \in Range(LocalQ(c)) :
        ctx[b].state = LP_COMMON_STATE_WAIT_RX
        => ( /\ ctx[b].opcode = PDU_DATA_LLCTRL_TYPE_VERSION_IND
             /\ ctx[b].opcode = pdu_encode_version_ind.opcode
             /\ conn[c].vex.sent = 1
             /\ vind_tx[c] = 1 )

\* A local request in WaitRx with its VERSION_IND still in the transmit queue,
\* while another block's opcode byte holds something else.
C19_Witness ==
    \E c \in Conns :
        /\ LocalQ(c) # <<>>
        /\ ctx[Head(LocalQ(c))].state = LP_COMMON_STATE_WAIT_RX
        /\ conn[c].tx_q = <<pdu_encode_version_ind>>
        /\ \E b \in Blocks \ Range(LocalQ(c)) :
              ctx[b].opcode = PDU_DATA_LLCTRL_TYPE_OTHER

\* C20: when rx spawns a new remote procedure, the received PDU is delivered
\* as Request to the context just created for it, after that context got Run
\* and moved to WaitRx; also when the remote lane already holds an earlier
\* context or is not Idle.
C20_RequestToNewContext ==
    [][\A c \in Conns, pdu \in VersionPdus :
          ( /\ ~LocalAwaits(c, pdu) /\ ~RemoteAwaits(c, pdu)
            /\ mem_ctx # <<>>
            /\ Rx(c, pdu) )
          => LET new == Head(mem_ctx)
                 run == [fsm |-> "rp_comm_execute_fsm", ctx |-> new,
                         evt |-> RP_COMMON_EVT_RUN]
                 req == [fsm |-> "rp_comm_execute_fsm", ctx |-> new,
                         evt |-> RP_COMMON_EVT_REQUEST]
             IN  \E j, k \in 1..Len(evt_log') :
                     j < k /\ evt_log'[j] = run /\ evt_log'[k] = req]_vars

\* C21: when rx would spawn a new remote procedure (a VERSION_IND that no
\* head context awaits) but the context pool has no free block, the PDU is
\* dropped silently: no lane state, lane queue, version cache, transmit queue
\* or pool changes, no context changes, and no abort occurs.
C21_SilentDrop ==
    [][\A c \in Conns, pdu \in VersionPdus :
          ( /\ ~LocalAwaits(c, pdu) /\ ~RemoteAwaits(c, pdu)
            /\ mem_ctx = <<>>
            /\ Rx(c, pdu) )
          => ( /\ UNCHANGED engine
               /\ ~aborted'
               /\ evt_log' = <<>> )]_vars

\* An rx on a connection with idle, empty lanes that reached no FSM at all:
\* the context pool was empty and the VERSION_IND was dropped.
C21_Witness ==
    \E c \in Conns :
        /\ lastOp.op = "rx" /\ lastOp.conn = c
        /\ mem_ctx = <<>>
        /\ evt_log = <<>>
        /\ ~aborted
        /\ conn[c].local = [state |-> LR_STATE_IDLE, pend_proc_list |-> <<>>]
        /\ conn[c].remote = [state |-> RR_STATE_IDLE, pend_proc_list |-> <<>>]
        /\ conn[c].vex = VexZero

\* C22: in every reachable state a lane in state Active has a non-empty
\* queue, so the head context used by lr_act_run / rr_act_run and by the rx
\* dispatch is never null (and rr_rx is never handed a null context).
C22_ActiveHasHead ==
    /\ \A c \in Conns :
          /\ conn[c].local.state = LR_STATE_ACTIVE => lr_peek(Cur, c) # NULL
          /\ conn[c].remote.state = RR_STATE_ACTIVE => rr_peek(Cur, c) # NULL
    /\ assert_failed # "NULL dereference in rr_rx"

\* Both kinds of Active lane at once: a local request waiting for its response
\* on one connection, a remote request parked for a transmit buffer on another.
C22_Witness ==
    \E c, d \in Conns :
        /\ conn[c].local.state = LR_STATE_ACTIVE
        /\ Len(LocalQ(c)) = 1
        /\ ctx[Head(LocalQ(c))].state = LP_COMMON_STATE_WAIT_RX
        /\ conn[d].remote.state = RR_STATE_ACTIVE
        /\ Len(RemoteQ(d)) = 1
        /\ ctx[Head(RemoteQ(d))].state = RP_COMMON_STATE_WAIT_TX

====
